---- MODULE Spec2Model ----
(***************************************************************************)
(* Model of static/gmap.js: a browser client that polls /data.json once a  *)
(* second, reconciles the aircraft list against the registry Planes, keeps *)
(* one marker per aircraft on the map and renders two text panels.         *)
(*                                                                         *)
(* JavaScript objects are records; a property that has never been assigned *)
(* is absent from the record's domain and reads as "undefined".  A string  *)
(* is the sequence of its pieces and + on strings is \o.                   *)
(*                                                                         *)
(* The markers are modelled as the map widget holds them: setMap(null)     *)
(* takes a marker out of the map's overlays.  The registry entry that      *)
(* referred to it is deleted in the same loop iteration, so the object is  *)
(* out of the program's reach from then on, except for its click listener, *)
(* which reads planehex and nothing else; made keeps the identities such   *)
(* listeners can still report.                                             *)
(***************************************************************************)
EXTENDS Integers, Sequences, FiniteSets, TLC

VARIABLES
    Planes,     \* gmap.js:4   registry: icao -> aircraft object
    NumPlanes,  \* gmap.js:5   stored count
    Selected,   \* gmap.js:6   selected icao, or Null
    markers,    \* the map's overlays: handle -> google.maps.Marker placed on Map
    made,       \* the identities a marker (and its click listener) was made for
    geninfo,    \* innerHTML of the element 'geninfo'
    selinfo,    \* innerHTML of the element 'selinfo'
    inflight,   \* the $.getJSON requests dispatched and not yet answered, oldest
                \* first; each carries whether a request dispatched after it has
                \* already been reconciled
    ev          \* history: the event that produced this state (see Event)

vars == <<Planes, NumPlanes, Selected, markers, made, geninfo, selinfo, inflight, ev>>

----------------------------------------------------------------------------
(* Bounds of the model *)

MaxLen == 2         \* longest aircraft list a response carries
MaxInFlight == 1    \* requests in flight at once in Spec
MaxOverlap == 2     \* requests in flight at once in NetSpec, where they overlap
AltSteps == 41      \* altitudes of the icon study: steps of AltStep feet from -AltStep

----------------------------------------------------------------------------
(* Values *)

Null == "null"
Undefined == "undefined"
Map == "map_canvas"          \* the google.maps.Map handle created by initialize
EmptyHtml == << >>           \* a panel nothing has been written to

\* The numeric fields of an aircraft, as two consistent readings.
Reading(v) ==
    IF v = 1
    THEN [latitude |-> 10, longitude |-> 20, altitude |-> 0,     speed |-> 100, track |-> 90]
    ELSE [latitude |-> 11, longitude |-> 21, altitude |-> 40000, speed |-> 200, track |-> 180]

Aircraft(id, f, v) == [icao |-> id, flight |-> f] @@ Reading(v)

\* The entries a response can carry.  A callsign is the sequence of its
\* characters, as the server sends it.
Aircrafts ==
    { Aircraft("A1", <<" ">>, 1),
      Aircraft("A1", <<" ", "U", "A", " ">>, 2),
      Aircraft("B2", << >>, 2) }

RECURSIVE SeqsUpTo(_, _)
SeqsUpTo(S, n) ==
    IF n = 0 THEN { <<>> }
    ELSE LET shorter == SeqsUpTo(S, n - 1)
         IN  shorter \cup { Append(s, x) : s \in { t \in shorter : Len(t) = n - 1 }, x \in S }

\* data.aircrafts of the responses the server can send
Snapshots == SeqsUpTo(Aircrafts, MaxLen)

\* The responses of the study of overlapping requests: at most one entry,
\* and a broken response is at most one entry followed by null.
NetSnapshots == SeqsUpTo(Aircrafts, 1)

\* The altitudes and headings getIconForPlane is studied on: a grid from
\* below sea level to above maxalt, and the altitudes next to 0, maxalt/2,
\* maxalt and the first negative altitude whose blue exceeds 255.
AltStep == 1000

IconAltitudes ==
    { AltStep * k : k \in -1 .. AltSteps }
      \cup { -157, -156, -1, 1, 19999, 20001, 39999, 40001 }

IconTracks == { 0, 270 }

IconAircrafts ==
    { [icao |-> "A1", flight |-> << >>, latitude |-> 10, longitude |-> 20,
       altitude |-> a, speed |-> 100, track |-> t] : a \in IconAltitudes, t \in IconTracks }

----------------------------------------------------------------------------
(* Strings *)

IsSpace(c) == c = " "

RECURSIVE TrimLeft(_)
TrimLeft(s) == IF s # <<>> /\ IsSpace(Head(s)) THEN TrimLeft(Tail(s)) ELSE s

RECURSIVE TrimRight(_)
TrimRight(s) ==
    IF s # <<>> /\ IsSpace(s[Len(s)]) THEN TrimRight(SubSeq(s, 1, Len(s) - 1)) ELSE s

\* A trim that forgets the trailing whitespace.
TrimLeftOnly(s) == TrimLeft(s)

\* $.trim
Trim(s) == TrimRight(TrimLeft(s))

\* the numbers the page converts to strings, and their decimal form
Numbers ==
    UNION { { a.latitude, a.longitude, a.altitude, a.speed, a.track } :
              a \in Aircrafts \cup IconAircrafts }
      \cup (0 .. 300) \cup (0 .. MaxLen)

NumStr[n \in Numbers] == ToString(n)

\* '' + obj[name] for a numeric property of a JavaScript object
Prop(obj, name) == IF name \in DOMAIN obj THEN NumStr[obj[name]] ELSE Undefined

----------------------------------------------------------------------------
(* getIconForPlane *)

MaxAlt == 40000

\* 255/maxalt is the double 7349874591868649 * 2^-60; its base-4096 digits,
\* least significant first.
Limb == 4096
Ratio == <<1769, 786, 3080, 458, 26>>

RECURSIVE Pow2(_)
Pow2(n) == IF n = 0 THEN 1 ELSE 2 * Pow2(n - 1)

RECURSIVE Log2(_)
Log2(n) == IF n <= 1 THEN 0 ELSE 1 + Log2(n \div 2)

\* the exact product Ratio * a, as base-4096 digits (7 of them)
RECURSIVE MulDigits(_, _, _)
MulDigits(a, i, carry) ==
    IF i > Len(Ratio) THEN << carry % Limb, carry \div Limb >>
    ELSE LET t == Ratio[i] * a + carry
         IN  << t % Limb >> \o MulDigits(a, i + 1, t \div Limb)

\* parseInt(255/maxalt*invalt): the product is rounded to the nearest double
\* (53 significant bits, ties to even) and then truncated.  The five low
\* digits of the exact product are its fraction (60 bits); the rounding
\* reaches the next integer exactly when the fraction is within half an ulp
\* of it.
BlueOf(invalt) ==
    LET p     == MulDigits(invalt, 1, 0)
        whole == p[6] + Limb * p[7]
        low   == p[1] + Limb * p[2]
        gap   == Limb * Limb - low          \* 2^60 - fraction, when p[3..5] are all ones
        half  == IF whole = 0 THEN Pow2(6) ELSE Pow2(Log2(whole) + 7)
        up    == /\ p[3] = Limb - 1 /\ p[4] = Limb - 1 /\ p[5] = Limb - 1
                 /\ gap <= half
    IN  IF invalt = 0 THEN 0 ELSE IF up THEN whole + 1 ELSE whole

\* BlueOf over the altitudes of Aircrafts, computed once
InvAlt(altitude) == IF MaxAlt - altitude < 0 THEN 0 ELSE MaxAlt - altitude

Blue[invalt \in { InvAlt(a.altitude) : a \in Aircrafts \cup IconAircrafts }] == BlueOf(invalt)

getIconForPlane(plane, sel) ==
    LET r == 255
        g == 255
        selected == (sel = plane.icao)
        invalt == InvAlt(plane.altitude)
        b == Blue[invalt]
    IN  [ strokeWeight |-> IF selected THEN 2 ELSE 1,
          path         |-> "FORWARD_CLOSED_ARROW",
          scale        |-> 5,
          fillColor    |-> <<"rgb(", NumStr[r], ",", NumStr[g], ",", NumStr[b], ")">>,
          fillOpacity  |-> "0.9",
          rotation     |-> plane.track ]

----------------------------------------------------------------------------
(* Objects *)

\* obj with obj[name] assigned
Assign(obj, name, val) == (name :> val) @@ obj

----------------------------------------------------------------------------
(* refreshGeneralInfo, refreshSelectedInfo *)

refreshGeneralInfo(n) == <<NumStr[n], " planes on screen.">>

\* the HTML refreshSelectedInfo builds for the aircraft object p
DetailHtml(p) ==
    <<"ICAO: ", p.icao, "<br>">>
    \o (IF Len(p.flight) # 0 THEN <<"<b>">> \o p.flight \o <<"</b><br>">> ELSE << >>)
    \o <<"Altitude: ", Prop(p, "altitude"), " feet<br>">>
    \o <<"Speed: ", Prop(p, "speed"), " knots<br>">>
    \o <<"Coordinates: ", Prop(p, "lat"), ", ", Prop(p, "lon"), "<br>">>

\* the content of 'selinfo' after refreshSelectedInfo, given registry P,
\* selection sel and the content html before the call
refreshSelectedInfo(P, sel, html) ==
    IF sel \notin DOMAIN P THEN html ELSE DetailHtml(P[sel])

----------------------------------------------------------------------------
(* fetchData: the callback of $.getJSON *)

\* the title given to the marker of plane (flight already trimmed)
TitleOf(plane) ==
    IF Len(plane.flight) = 0 THEN <<plane.icao>>
    ELSE plane.flight \o <<" (", plane.icao, ")">>

\* An update that leaves the stored speed as it was.
UpdatePlaneStaleSpeed(st, plane) ==
    LET myplane  == st.P[plane.icao]
        m        == myplane.marker
        myplane1 == [lat |-> plane.latitude, lon |-> plane.longitude] @@
                    [myplane EXCEPT !.altitude = plane.altitude,
                                    !.track = plane.track,
                                    !.flight = plane.flight]
        P1       == [st.P EXCEPT ![plane.icao] = myplane1]
    IN  [ P   |-> P1,
          M   |-> [st.M EXCEPT ![m].position = [lat |-> plane.latitude, lng |-> plane.longitude],
                               ![m].icon = getIconForPlane(plane, Selected),
                               ![m].title = TitleOf(plane)],
          sel |-> IF myplane1.icao = Selected
                  THEN refreshSelectedInfo(P1, Selected, st.sel) ELSE st.sel,
          stillhere |-> st.stillhere ]

\* An update that re-renders the detail panel before it stores the new fields.
UpdatePlaneRefreshFirst(st, plane) ==
    LET myplane  == st.P[plane.icao]
        m        == myplane.marker
        myplane1 == [lat |-> plane.latitude, lon |-> plane.longitude] @@
                    [myplane EXCEPT !.altitude = plane.altitude,
                                    !.speed = plane.speed,
                                    !.track = plane.track,
                                    !.flight = plane.flight]
    IN  [ P   |-> [st.P EXCEPT ![plane.icao] = myplane1],
          M   |-> [st.M EXCEPT ![m].position = [lat |-> plane.latitude, lng |-> plane.longitude],
                               ![m].icon = getIconForPlane(plane, Selected),
                               ![m].title = TitleOf(plane)],
          sel |-> IF myplane.icao = Selected
                  THEN refreshSelectedInfo(st.P, Selected, st.sel) ELSE st.sel,
          stillhere |-> st.stillhere ]

\* An update that sets the icon from the fields stored before the update.
UpdatePlaneStaleIcon(st, plane) ==
    LET myplane  == st.P[plane.icao]
        m        == myplane.marker
        myplane1 == [lat |-> plane.latitude, lon |-> plane.longitude] @@
                    [myplane EXCEPT !.altitude = plane.altitude,
                                    !.speed = plane.speed,
                                    !.track = plane.track,
                                    !.flight = plane.flight]
        P1       == [st.P EXCEPT ![plane.icao] = myplane1]
    IN  [ P   |-> P1,
          M   |-> [st.M EXCEPT ![m].position = [lat |-> plane.latitude, lng |-> plane.longitude],
                               ![m].icon = getIconForPlane(myplane, Selected),
                               ![m].title = TitleOf(plane)],
          sel |-> IF myplane1.icao = Selected
                  THEN refreshSelectedInfo(P1, Selected, st.sel) ELSE st.sel,
          stillhere |-> st.stillhere ]

\* The loop body when Planes[plane.icao] exists.  st is the loop's state:
\* the registry P, the markers M, the detail panel sel and stillhere.
UpdatePlane(st, plane) ==
    LET myplane  == st.P[plane.icao]
        m        == myplane.marker
        newpos   == [lat |-> plane.latitude, lng |-> plane.longitude]
        myplane1 == [lat |-> plane.latitude, lon |-> plane.longitude] @@
                    [myplane EXCEPT !.altitude = plane.altitude,
                                    !.speed = plane.speed,
                                    !.track = plane.track,
                                    !.flight = plane.flight]
        P1       == [st.P EXCEPT ![plane.icao] = myplane1]
    IN  [ P   |-> P1,
          M   |-> [st.M EXCEPT ![m].position = newpos,
                               ![m].icon = getIconForPlane(plane, Selected),
                               ![m].title = TitleOf(plane)],
          sel |-> IF myplane1.icao = Selected
                  THEN refreshSelectedInfo(P1, Selected, st.sel) ELSE st.sel,
          stillhere |-> st.stillhere ]

\* the handle of a new marker: the first one no overlay of the map uses
NewHandle(M) == CHOOSE h \in 1 .. Cardinality(DOMAIN M) + 1 : h \notin DOMAIN M

\* The loop body when Planes[plane.icao] does not exist.  The new marker is
\* given its planehex and its title before the callback returns.
CreatePlane(st, plane) ==
    LET m      == NewHandle(st.M)
        marker == [ position |-> [lat |-> plane.latitude, lng |-> plane.longitude],
                    map      |-> Map,
                    icon     |-> getIconForPlane(plane, Selected),
                    planehex |-> plane.icao,
                    title    |-> TitleOf(plane) ]
    IN  [ P   |-> (plane.icao :> Assign(plane, "marker", m)) @@ st.P,
          M   |-> (m :> marker) @@ st.M,
          sel |-> st.sel,
          stillhere |-> st.stillhere ]

\* One iteration of the loop over data.aircrafts.
LoopBody(st, raw) ==
    LET plane == [raw EXCEPT !.flight = Trim(raw.flight)]
        st1   == [st EXCEPT !.stillhere = @ \cup {plane.icao}]
    IN  IF plane.icao \in DOMAIN st1.P THEN UpdatePlane(st1, plane)
        ELSE CreatePlane(st1, plane)

RECURSIVE Loop(_, _, _)
Loop(st, aircrafts, j) ==
    IF j > Len(aircrafts) THEN st
    ELSE Loop(LoopBody(st, aircrafts[j]), aircrafts, j + 1)

\* A removal that takes the markers off the map and keeps the entries.
RemoveIdleKeepsEntry(st) ==
    LET idle == { p \in DOMAIN st.P : p \notin st.stillhere }
        gone == { st.P[p].marker : p \in idle }
    IN  [ st EXCEPT !.M = [ m \in DOMAIN st.M \ gone |-> st.M[m] ] ]

\* A removal that deletes the entries and leaves their markers on the map.
RemoveIdleKeepsMarker(st) ==
    LET idle == { p \in DOMAIN st.P : p \notin st.stillhere }
    IN  [ st EXCEPT !.P = [ p \in DOMAIN st.P \ idle |-> st.P[p] ] ]

\* A removal that also blanks the detail panel when it removes the selection.
RemoveIdleClearsPanel(st) ==
    LET idle == { p \in DOMAIN st.P : p \notin st.stillhere }
        gone == { st.P[p].marker : p \in idle }
    IN  [ st EXCEPT
            !.M = [ m \in DOMAIN st.M \ gone |-> st.M[m] ],
            !.P = [ p \in DOMAIN st.P \ idle |-> st.P[p] ],
            !.sel = IF Selected \in idle THEN EmptyHtml ELSE @ ]

\* No removal at all.
RemoveIdleNever(st) == st

\* "Remove idle planes.": setMap(null) on the marker, delete on the entry.
RemoveIdle(st) ==
    LET idle == { p \in DOMAIN st.P : p \notin st.stillhere }
        gone == { st.P[p].marker : p \in idle }
    IN  [ st EXCEPT
            !.M = [ m \in DOMAIN st.M \ gone |-> st.M[m] ],
            !.P = [ p \in DOMAIN st.P \ idle |-> st.P[p] ] ]

\* the whole callback, from the state of the page to its state afterwards
Callback(aircrafts) ==
    RemoveIdle(Loop([P |-> Planes, M |-> markers, sel |-> selinfo, stillhere |-> {}],
                    aircrafts, 1))

----------------------------------------------------------------------------
(* Events *)

\* The entries of aircrafts that count: for each identity listed, its last one.
Last(aircrafts) ==
    LET ids == { aircrafts[j].icao : j \in DOMAIN aircrafts }
        at(id) == CHOOSE j \in DOMAIN aircrafts :
                    /\ aircrafts[j].icao = id
                    /\ \A k \in DOMAIN aircrafts : aircrafts[k].icao = id => k <= j
    IN  [ id \in ids |-> aircrafts[at(id)] ]

\* The history of an event: the operation, the response it was given (seen),
\* the identity clicked (hex), and the registry's keys (had) and the selection
\* (old) before it; late tells that the response reconciled belongs to a
\* request dispatched before one whose response was reconciled earlier.
Event(op, aircrafts, hex) ==
    [op |-> op, seen |-> Last(aircrafts), hex |-> hex, had |-> DOMAIN Planes,
     old |-> Selected, late |-> FALSE]

Init ==
    /\ Planes = << >>
    /\ NumPlanes = 0
    /\ Selected = Null
    /\ markers = << >>
    /\ made = {}
    /\ geninfo = EmptyHtml
    /\ selinfo = EmptyHtml
    /\ inflight = << >>
    /\ ev = [op |-> "initialize", seen |-> << >>, hex |-> Null, had |-> {}, old |-> Null,
             late |-> FALSE]

\* The timer fires: fetchData() dispatches a request, then refreshGeneralInfo().
\* cap bounds the requests in flight.
Dispatch(cap) ==
    /\ Len(inflight) < cap
    /\ inflight' = Append(inflight, FALSE)
    /\ geninfo' = refreshGeneralInfo(NumPlanes)
    /\ ev' = Event("tick", << >>, Null)
    /\ UNCHANGED <<Planes, NumPlanes, Selected, markers, made, selinfo>>

Tick == Dispatch(MaxInFlight)

\* the identities of aircrafts that get a new marker
NewIds(aircrafts) == { aircrafts[j].icao : j \in DOMAIN aircrafts } \ DOMAIN Planes

\* inflight without its i-th request
Without(i) == SubSeq(inflight, 1, i - 1) \o SubSeq(inflight, i + 1, Len(inflight))

\* inflight once the i-th request's response has been reconciled: the requests
\* dispatched before it have been overtaken
Overtaking(i) ==
    [ j \in 1 .. (i - 1) |-> TRUE ] \o SubSeq(inflight, i + 1, Len(inflight))

\* A page that numbers its requests and drops the response of a request
\* that a later one has overtaken.
ReconcileDropsStale(i, aircrafts) ==
    LET st == Callback(aircrafts)
    IN  /\ i \in DOMAIN inflight
        /\ inflight' = Overtaking(i)
        /\ ev' = [Event("reconcile", aircrafts, Null) EXCEPT !.late = inflight[i]]
        /\ IF inflight[i]
           THEN UNCHANGED <<Planes, NumPlanes, Selected, markers, made, geninfo, selinfo>>
           ELSE /\ made' = made \cup NewIds(aircrafts)
                /\ Planes' = st.P
                /\ markers' = st.M
                /\ selinfo' = st.sel
                /\ NumPlanes' = Len(aircrafts)
                /\ UNCHANGED <<Selected, geninfo>>

\* The i-th request in flight is answered with the list aircrafts: the
\* callback runs.
Reconcile(i, aircrafts) ==
    LET st == Callback(aircrafts)
    IN  /\ i \in DOMAIN inflight
        /\ made' = made \cup NewIds(aircrafts)
        /\ inflight' = Overtaking(i)
        /\ Planes' = st.P
        /\ markers' = st.M
        /\ selinfo' = st.sel
        /\ NumPlanes' = Len(aircrafts)
        /\ ev' = [Event("reconcile", aircrafts, Null) EXCEPT !.late = inflight[i]]
        /\ UNCHANGED <<Selected, geninfo>>

\* The i-th request fails, or its response is not JSON, or it is JSON without
\* an aircrafts array: the callback never runs, or throws at line 62 before it
\* has changed anything.
Fail(i) ==
    /\ i \in DOMAIN inflight
    /\ inflight' = Without(i)
    /\ ev' = Event("fail", << >>, Null)
    /\ UNCHANGED <<Planes, NumPlanes, Selected, markers, made, geninfo, selinfo>>

\* The i-th request is answered with a list that holds the entries aircrafts
\* and then null: the loop handles the entries, then plane.icao throws at
\* line 65.  Lines 101-109 do not run.
Malformed(i, aircrafts) ==
    LET st == Loop([P |-> Planes, M |-> markers, sel |-> selinfo, stillhere |-> {}],
                   aircrafts, 1)
    IN  /\ i \in DOMAIN inflight
        /\ made' = made \cup NewIds(aircrafts)
        /\ inflight' = Without(i)
        /\ Planes' = st.P
        /\ markers' = st.M
        /\ selinfo' = st.sel
        /\ ev' = Event("malformed", aircrafts, Null)
        /\ UNCHANGED <<NumPlanes, Selected, geninfo>>

\* A selectPlane that leaves the highlight on the previously selected plane.
selectPlaneKeepsHighlight(hex) ==
    /\ ev' = Event("click", << >>, hex)
    /\ IF hex \notin DOMAIN Planes
       THEN UNCHANGED <<Planes, NumPlanes, Selected, markers, made, geninfo, selinfo, inflight>>
       ELSE /\ Selected' = hex
            /\ markers' = [markers EXCEPT ![Planes[hex].marker].icon =
                                            getIconForPlane(Planes[hex], hex)]
            /\ selinfo' = refreshSelectedInfo(Planes, hex, selinfo)
            /\ UNCHANGED <<Planes, NumPlanes, made, geninfo, inflight>>

\* A selectPlane without the existence check: the selection is stored and the
\* old highlight removed before the missing entry is dereferenced.
selectPlaneUnguarded(hex) ==
    LET old == Selected
        M1  == IF old \in DOMAIN Planes
               THEN [markers EXCEPT ![Planes[old].marker].icon = getIconForPlane(Planes[old], hex)]
               ELSE markers
    IN  /\ ev' = Event("click", << >>, hex)
        /\ Selected' = hex
        /\ IF hex \notin DOMAIN Planes
           THEN /\ markers' = M1
                /\ UNCHANGED <<Planes, NumPlanes, made, geninfo, selinfo, inflight>>
           ELSE /\ markers' = [M1 EXCEPT ![Planes[hex].marker].icon =
                                                getIconForPlane(Planes[hex], hex)]
                /\ selinfo' = refreshSelectedInfo(Planes, hex, selinfo)
                /\ UNCHANGED <<Planes, NumPlanes, made, geninfo, inflight>>

\* A click listener runs: selectPlane with this.planehex = hex.  The icons are
\* computed with Selected already set to hex.
selectPlane(hex) ==
    LET old == Selected
        M1  == IF old \in DOMAIN Planes
               THEN [markers EXCEPT ![Planes[old].marker].icon = getIconForPlane(Planes[old], hex)]
               ELSE markers
        M2  == [M1 EXCEPT ![Planes[hex].marker].icon = getIconForPlane(Planes[hex], hex)]
    IN  /\ ev' = Event("click", << >>, hex)
        /\ IF hex \notin DOMAIN Planes
           THEN UNCHANGED <<Planes, NumPlanes, Selected, markers, made, geninfo, selinfo, inflight>>
           ELSE /\ Selected' = hex
                /\ markers' = M2
                /\ selinfo' = refreshSelectedInfo(Planes, hex, selinfo)
                /\ UNCHANGED <<Planes, NumPlanes, made, geninfo, inflight>>

Next ==
    \/ Tick
    \/ \E i \in DOMAIN inflight : \E aircrafts \in Snapshots : Reconcile(i, aircrafts)
    \/ \E i \in DOMAIN inflight : Fail(i)
    \/ \E hex \in made : selectPlane(hex)

Spec == Init /\ [][Next]_vars

----------------------------------------------------------------------------
(* Overlapping requests and broken responses: the timer fires while earlier
   requests are still unanswered, and the responses arrive in any order. *)

NetTick == Dispatch(MaxOverlap)

NetNext ==
    \/ NetTick
    \/ \E i \in DOMAIN inflight : \E aircrafts \in NetSnapshots : Reconcile(i, aircrafts)
    \/ \E i \in DOMAIN inflight : Fail(i)
    \/ \E i \in DOMAIN inflight : \E aircrafts \in NetSnapshots : Malformed(i, aircrafts)
    \/ \E hex \in made : selectPlane(hex)

NetSpec == Init /\ [][NetNext]_vars

\* The timer never stops firing (setInterval), and responses keep being
\* delivered to the callback: no request is left unanswered for ever and the
\* requests do not fail for ever.
LiveSpec ==
    /\ NetSpec
    /\ WF_vars(NetTick)
    /\ SF_vars(\E i \in DOMAIN inflight : \E aircrafts \in NetSnapshots : Reconcile(i, aircrafts))

----------------------------------------------------------------------------
(* getIconForPlane on its own: the page after its first timer tick, the
   response to that tick's request, which lists one aircraft of IconAircrafts,
   and the clicks on that aircraft's marker.  The response's callback computes
   the icon unselected, a click computes it selected. *)

IconInit ==
    /\ Planes = << >>
    /\ NumPlanes = 0
    /\ Selected = Null
    /\ markers = << >>
    /\ made = {}
    /\ geninfo = refreshGeneralInfo(0)
    /\ selinfo = EmptyHtml
    /\ inflight = <<FALSE>>
    /\ ev = [op |-> "tick", seen |-> << >>, hex |-> Null, had |-> {}, old |-> Null,
             late |-> FALSE]

IconNext ==
    \/ \E plane \in IconAircrafts : Reconcile(1, <<plane>>)
    \/ \E hex \in made : selectPlane(hex)

IconSpec == IconInit /\ [][IconNext]_vars

----------------------------------------------------------------------------
(* Vocabulary of the properties *)

OnMap == { m \in DOMAIN markers : markers[m].map = Map }

MarkersOf(id) == { m \in DOMAIN markers : markers[m].planehex = id }

\* t is s without its leading and trailing spaces
IsTrimOf(t, s) ==
    \E i \in 1 .. Len(s) + 1 : \E j \in (i - 1) .. Len(s) :
        /\ t = SubSeq(s, i, j)
        /\ \A k \in 1 .. (i - 1) : s[k] = " "
        /\ \A k \in (j + 1) .. Len(s) : s[k] = " "
        /\ t # << >> => (t[1] # " " /\ t[Len(t)] # " ")

Stripped(s) ==
    CHOOSE t \in { SubSeq(s, i, j) : i \in 1 .. Len(s) + 1, j \in 0 .. Len(s) } : IsTrimOf(t, s)

\* the detail panel for identity id, callsign t, altitude, speed and the
\* coordinates lat, lon given as text
Panel(id, t, altitude, speed, lat, lon) ==
    <<"ICAO: ", id, "<br>">>
    \o (IF t = << >> THEN << >> ELSE <<"<b>">> \o t \o <<"</b><br>">>)
    \o <<"Altitude: ", NumStr[altitude], " feet<br>", "Speed: ", NumStr[speed], " knots<br>",
         "Coordinates: ", lat, ", ", lon, "<br>">>

----------------------------------------------------------------------------
(* C1: after a reconciliation, every identity the registry held before and the
   response does not list is no key of the registry and has no marker left on
   the map; the registry's keys are exactly the identities the response
   lists. *)
C1_RemovedAndKeys ==
    ev.op = "reconcile" =>
        /\ DOMAIN Planes = DOMAIN ev.seen
        /\ \A id \in ev.had \ DOMAIN ev.seen :
              /\ id \notin DOMAIN Planes
              /\ id \in made
              /\ MarkersOf(id) = {}

C1_Witness ==
    /\ ev.op = "reconcile"
    /\ \E id \in ev.had \ DOMAIN ev.seen : MarkersOf(id) = {}
    /\ DOMAIN Planes # {}

(* C2: a reconciliation whose response lists an identity the registry already
   holds keeps that identity's entry and marker (no marker is created for it,
   exactly one marker of it is on the map) and leaves the entry's position,
   altitude, speed, heading and callsign equal to the response's values. *)
C2_UpdatedInPlace ==
    [][ ev'.op = "reconcile" =>
          \A id \in DOMAIN Planes \cap DOMAIN ev'.seen :
             LET a == ev'.seen[id]
                 p == Planes'[id]
             IN  /\ p.marker = Planes[id].marker
                 /\ MarkersOf(id)' = MarkersOf(id)
                 /\ MarkersOf(id)' \cap OnMap' = {p.marker}
                 /\ p.icao = id
                 /\ "lat" \in DOMAIN p /\ p.lat = a.latitude
                 /\ "lon" \in DOMAIN p /\ p.lon = a.longitude
                 /\ markers'[p.marker].position = [lat |-> a.latitude, lng |-> a.longitude]
                 /\ p.altitude = a.altitude
                 /\ p.speed = a.speed
                 /\ p.track = a.track
                 /\ IsTrimOf(p.flight, a.flight) ]_vars

C2_Witness ==
    /\ ev.op = "reconcile"
    /\ \E id \in ev.had \cap DOMAIN ev.seen :
          /\ Planes[id].speed = ev.seen[id].speed
          /\ Planes[id].latitude # ev.seen[id].latitude

(* C3: the markers on the map and the registry's keys correspond one to one:
   every entry's marker is on the map and carries the entry's identity, and
   every marker on the map is the marker of the entry of its identity. *)
C3_MarkersMatchRegistry ==
    /\ \A id \in DOMAIN Planes :
          /\ Planes[id].marker \in OnMap
          /\ id \in made
          /\ markers[Planes[id].marker].planehex = id
    /\ \A m \in OnMap :
          /\ markers[m].planehex \in DOMAIN Planes
          /\ Planes[markers[m].planehex].marker = m

C3_Witness ==
    /\ Cardinality(OnMap) = 1
    /\ Cardinality(DOMAIN Planes) = 1
    /\ Cardinality(made) = 2

(* C4: a marker on the map has stroke weight 2 exactly when its identity is
   the selected one, and at most one marker on the map has stroke weight 2. *)
C4_OneHighlight ==
    /\ \A m \in OnMap :
          /\ markers[m].icon.strokeWeight \in {1, 2}
          /\ markers[m].icon.strokeWeight = 2 <=> markers[m].planehex = Selected
    /\ Cardinality({ m \in OnMap : markers[m].icon.strokeWeight = 2 }) <= 1

C4_Witness ==
    /\ ev.op = "click"
    /\ ev.old = "A1" /\ Selected = "B2"
    /\ \E m \in OnMap : markers[m].planehex = "A1" /\ markers[m].icon.strokeWeight = 1
    /\ \E m \in OnMap : markers[m].planehex = "B2" /\ markers[m].icon.strokeWeight = 2

(* C5: the selection is none or a key of the registry. *)
C5_SelectionInRegistry ==
    Selected = Null \/ Selected \in DOMAIN Planes

(* C6: a click delivered for an identity that is no key of the registry
   changes nothing: not the selection, the markers, the registry or the
   panels. *)
C6_StaleClickNoOp ==
    [][ (ev'.op = "click" /\ ev'.hex \notin DOMAIN Planes) =>
          UNCHANGED <<Planes, NumPlanes, Selected, markers, made, geninfo, selinfo, inflight>> ]_vars

C6_Witness ==
    /\ ev.op = "click"
    /\ ev.hex \in made \ ev.had
    /\ Selected \in DOMAIN Planes

(* C7: right after a reconciliation, before any later timer tick, the summary
   panel shows the number of entities in the registry. *)
C7_CountShownAtOnce ==
    ev.op = "reconcile" =>
        geninfo = <<NumStr[Cardinality(DOMAIN Planes)], " planes on screen.">>

(* C8: the detail panel a click renders shows the clicked entity's identity,
   altitude, speed and coordinates as last reconciled (the coordinates are
   those its marker was last placed at). *)
C8_ClickShowsLatest ==
    (ev.op = "click" /\ ev.hex \in DOMAIN Planes) =>
        LET p   == Planes[ev.hex]
            pos == markers[p.marker].position
        IN  selinfo = Panel(ev.hex, p.flight, p.altitude, p.speed,
                            NumStr[pos.lat], NumStr[pos.lng])

(* C9: a reconciliation whose response lists the selected identity, already in
   the registry, leaves the detail panel showing that response's altitude,
   speed, callsign and coordinates. *)
C9_SelectedRefreshed ==
    (ev.op = "reconcile" /\ Selected \in ev.had \cap DOMAIN ev.seen) =>
        LET a == ev.seen[Selected]
        IN  selinfo = Panel(Selected, Stripped(a.flight), a.altitude, a.speed,
                            NumStr[a.latitude], NumStr[a.longitude])

C9_Witness ==
    /\ ev.op = "reconcile"
    /\ Selected \in ev.had \cap DOMAIN ev.seen
    /\ Planes[Selected].latitude # ev.seen[Selected].latitude
    /\ ev.seen[Selected].flight # << >>

(* C10: after a reconciliation, the title of every entity's marker is the
   identity alone when the response's callsign trims to nothing, and the
   trimmed callsign followed by " (identity)" otherwise. *)
C10_Title ==
    ev.op = "reconcile" =>
        \A id \in DOMAIN Planes :
            LET t == Stripped(ev.seen[id].flight)
            IN  markers[Planes[id].marker].title =
                    IF t = << >> THEN <<id>> ELSE t \o <<" (", id, ")">>

C10_Witness ==
    /\ ev.op = "reconcile"
    /\ \E id \in ev.had \cap DOMAIN Planes : Stripped(ev.seen[id].flight) # ev.seen[id].flight
    /\ \E id \in DOMAIN Planes \ ev.had : Stripped(ev.seen[id].flight) = << >>

(* C11: the icon of every marker has red 255, green 255 and the blue the
   altitude scale gives: 255 at altitude 0, 0 from 40000 feet up, 127 at
   20000 feet and floor(255*(40000-altitude)/40000) in between, so that a
   higher aircraft never has more blue; its rotation is the heading. *)
C11_BlueScale ==
    LET scale(alt) == IF alt >= MaxAlt THEN 0
                      ELSE IF alt = 0 THEN 255
                      ELSE (255 * (MaxAlt - alt)) \div MaxAlt
    IN  /\ scale(20000) = 127
        /\ \A a, b \in { x \in IconAltitudes : x >= 0 } : a <= b => scale(a) >= scale(b)
        /\ \A id \in DOMAIN Planes :
              LET p    == Planes[id]
                  icon == markers[p.marker].icon
              IN  p.altitude >= 0 =>
                    /\ icon.fillColor = <<"rgb(", "255", ",", "255", ",", NumStr[scale(p.altitude)], ")">>
                    /\ icon.rotation = p.track

(* C17: the blue channel of every marker's fill colour is in 0 .. 255, at
   negative altitudes too. *)
C17_BlueInRange ==
    \A id \in DOMAIN Planes :
        markers[Planes[id].marker].icon.fillColor[6] \in { NumStr[b] : b \in 0 .. 255 }

(* C12: a request that fails, and a response that is malformed, leave the
   registry, the markers, the selection, the stored count and both panels as
   they were; and every tick of the timer dispatches a new request, whatever
   became of the earlier ones. *)
C12_FailureSkips ==
    [][ /\ ev'.op \in {"fail", "malformed"} =>
              UNCHANGED <<Planes, markers, Selected, NumPlanes, geninfo, selinfo>>
        /\ ev'.op = "tick" => Len(inflight') = Len(inflight) + 1 ]_vars

(* C13: a reconciliation leaves the selection as it was; when the response
   omits the selected identity, the detail panel is left as it was too, and
   no timer tick or failed request changes either of them. *)
C13_SelectionKept ==
    [][ /\ ev'.op = "reconcile" =>
              /\ Selected' = Selected
              /\ Selected \notin DOMAIN ev'.seen => selinfo' = selinfo
        /\ ev'.op \in {"tick", "fail"} => (Selected' = Selected /\ selinfo' = selinfo) ]_vars

C13_Witness ==
    /\ ev.op = "tick"
    /\ Selected # Null
    /\ Selected \notin DOMAIN Planes
    /\ DOMAIN Planes # {}
    /\ selinfo # EmptyHtml

(* C14: a response is applied in full whenever it arrives: after the
   reconciliation of a response, also of one whose request was dispatched
   before a request already answered, the registry's keys are the identities
   that response lists and every entry and marker carries that response's
   values. *)
C14_LastArrivalWins ==
    ev.op = "reconcile" =>
        /\ DOMAIN Planes = DOMAIN ev.seen
        /\ \A id \in DOMAIN Planes :
              LET a == ev.seen[id]
                  p == Planes[id]
              IN  /\ p.altitude = a.altitude
                  /\ p.speed = a.speed
                  /\ p.track = a.track
                  /\ p.flight = Stripped(a.flight)
                  /\ markers[p.marker].position = [lat |-> a.latitude, lng |-> a.longitude]
                  /\ "lat" \in DOMAIN p => (p.lat = a.latitude /\ p.lon = a.longitude)

C14_Witness ==
    /\ ev.op = "reconcile"
    /\ ev.late
    /\ ev.had # {}
    /\ ev.had # DOMAIN ev.seen
    /\ DOMAIN Planes # {}

(* C15: the stored count is the number of keys of the registry. *)
C15_CountIsKeys ==
    NumPlanes = Cardinality(DOMAIN Planes)

(* C16: the icon of every entity's marker is the one getIconForPlane yields
   for the entity as stored and the current selection. *)
C16_IconFollowsRegistry ==
    \A id \in DOMAIN Planes :
        markers[Planes[id].marker].icon = getIconForPlane(Planes[id], Selected)

C16_Witness ==
    /\ ev.op = "click"
    /\ ev.hex \in DOMAIN Planes
    /\ ev.old \in DOMAIN Planes \ {ev.hex}
    /\ "lat" \in DOMAIN Planes[ev.old]
    /\ Planes[ev.old].lat # Planes[ev.old].latitude

(* C18: with the timer firing and responses being delivered for ever, an
   identity that no response lists from some point on is in the end neither
   in the registry nor on the map, for good. *)
C18_EventuallyRemoved ==
    LET Listed(id) == ev.op \in {"reconcile", "malformed"} /\ id \in DOMAIN ev.seen
        Removed(id) == id \notin DOMAIN Planes /\ MarkersOf(id) = {}
    IN  /\ <>[](~Listed("A1")) => <>[]Removed("A1")
        /\ <>[](~Listed("B2")) => <>[]Removed("B2")

C18_Witness ==
    /\ ev.op = "reconcile"
    /\ "A1" \in ev.had \ DOMAIN ev.seen
    /\ "A1" \notin DOMAIN Planes /\ MarkersOf("A1") = {}
    /\ "B2" \in DOMAIN Planes
    /\ inflight = << >>

====
